---- MODULE Spec2Model ----
(***************************************************************************)
(* Model of the calculator state machine of src/js/index.js.               *)
(*                                                                         *)
(* Strings are sequences of one-character strings.  The operator keys      *)
(* U+00D7 (multiplication sign) and U+00F7 (division sign) are written     *)
(* "*" and "/" here; the absent operator (JavaScript null) is NULL, which  *)
(* string concatenation renders as the four characters n,u,l,l.            *)
(*                                                                         *)
(* Numbers are IEEE-754 doubles in the source.  The model carries the      *)
(* doubles on which double arithmetic is exact: NaN, the two infinities    *)
(* and the signed multiples of 1/2^FracBits (both zeros included).  Any    *)
(* other value is OutOfRange, and an event whose evaluation would produce  *)
(* one is not explored.                                                    *)
(***************************************************************************)
EXTENDS Integers, Sequences, FiniteSets, TLC

\* ---- bounds of the exploration ----
MaxLen == 2        \* Spec: longest operand a user types (characters)
MaxAbs == 8        \* Spec: largest magnitude of a computed result
FracBits == 1      \* finite numbers are the multiples of 1/2^FracBits
MaxTyped == 4      \* SpecTyping: longest key sequence
MaxRound == 8      \* SpecRoundTrip: most digits typed before the backspaces

RECURSIVE Pow(_, _)
Pow(b, e) == IF e = 0 THEN 1 ELSE b * Pow(b, e - 1)

Den == Pow(2, FracBits)

\* ---- characters and strings ----
DigitChars == <<"0", "1", "2", "3", "4", "5", "6", "7", "8", "9">>
AllDigits == {DigitChars[i] : i \in 1..10}
\* the digit keys pressed in Spec; the scripted specifications press all ten
Digits == {"0", "2"}
Operators == {"+", "-", "*", "/", "%"}
NULL == "null"

DigitVal(c) == (CHOOSE i \in 1..10 : DigitChars[i] = c) - 1
IsDigit(c) == c \in AllDigits

InfinityStr == <<"I", "n", "f", "i", "n", "i", "t", "y">>
NaNStr == <<"N", "a", "N">>
NullStr == <<"n", "u", "l", "l">>
SP == <<" ">>

\* string concatenation with an operator value: null renders as "null"
OpText(o) == IF o = NULL THEN NullStr ELSE <<o>>

\* s.slice(0, -1)
SliceLast(s) == IF Len(s) = 0 THEN s ELSE SubSeq(s, 1, Len(s) - 1)

\* s.includes('.')
Includes(s, c) == \E i \in 1..Len(s) : s[i] = c

\* index of the first space of s, or Len(s) + 1
FirstSpace(s) ==
    IF \E i \in 1..Len(s) : s[i] = " "
    THEN CHOOSE i \in 1..Len(s) : s[i] = " " /\ \A j \in 1..(i - 1) : s[j] # " "
    ELSE Len(s) + 1

\* s.split(' '): the sequence of tokens; "" splits into one empty token
RECURSIVE Split(_)
Split(s) ==
    LET i == FirstSpace(s)
    IN IF i > Len(s) THEN <<s>>
       ELSE <<SubSeq(s, 1, i - 1)>> \o Split(SubSeq(s, i + 1, Len(s)))

\* ---- numbers ----
NaN == [k |-> "nan", neg |-> FALSE, m |-> 0]
Inf(neg) == [k |-> "inf", neg |-> neg, m |-> 0]
OutOfRange == [k |-> "out", neg |-> FALSE, m |-> 0]
Fin(neg, m) == [k |-> "fin", neg |-> neg, m |-> m]

isNaN(x) == x.k = "nan"
Signed(x) == IF x.neg THEN 0 - x.m ELSE x.m
Abs(n) == IF n < 0 THEN 0 - n ELSE n
Negate(x) == IF x.k \in {"nan", "out"} THEN x ELSE [x EXCEPT !.neg = ~x.neg]

\* the longest prefix of s made of digits
RECURSIVE DigitPrefix(_)
DigitPrefix(s) ==
    IF Len(s) > 0 /\ IsDigit(s[1]) THEN <<s[1]>> \o DigitPrefix(Tail(s)) ELSE <<>>

RECURSIVE NatOf(_)
NatOf(ds) == IF Len(ds) = 0 THEN 0 ELSE 10 * NatOf(SliceLast(ds)) + DigitVal(ds[Len(ds)])

StartsWith(s, p) == Len(s) >= Len(p) /\ SubSeq(s, 1, Len(p)) = p

\* parseFloat(s): the longest prefix of s that is a decimal literal
ParseUnsigned(neg, s) ==
    IF StartsWith(s, InfinityStr) THEN Inf(neg)
    ELSE LET ip == DigitPrefix(s)
             rest == SubSeq(s, Len(ip) + 1, Len(s))
             fp == IF Len(rest) > 0 /\ rest[1] = "." THEN DigitPrefix(Tail(rest)) ELSE <<>>
             scale == Pow(10, Len(fp))
         IN IF Len(ip) = 0 /\ Len(fp) = 0 THEN NaN
            ELSE IF (NatOf(fp) * Den) % scale # 0 THEN OutOfRange
            ELSE Fin(neg, NatOf(ip) * Den + (NatOf(fp) * Den) \div scale)

parseFloat(s) ==
    IF Len(s) > 0 /\ s[1] = "-" THEN ParseUnsigned(TRUE, Tail(s))
    ELSE ParseUnsigned(FALSE, s)

RECURSIVE NatStr(_)
NatStr(n) == IF n < 10 THEN <<DigitChars[n + 1]>>
             ELSE NatStr(n \div 10) \o <<DigitChars[(n % 10) + 1]>>

RECURSIVE FracStr(_)
FracStr(f) == IF f = 0 THEN <<>>
              ELSE <<DigitChars[((f * 10) \div Den) + 1]>> \o FracStr((f * 10) % Den)

\* String(x)
String(x) ==
    IF x.k = "nan" THEN NaNStr
    ELSE IF x.k = "inf" THEN (IF x.neg THEN <<"-">> ELSE <<>>) \o InfinityStr
    ELSE IF x.m = 0 THEN <<"0">>
    ELSE (IF x.neg THEN <<"-">> ELSE <<>>) \o NatStr(x.m \div Den)
         \o (IF x.m % Den = 0 THEN <<>> ELSE <<".">> \o FracStr(x.m % Den))

\* prev + current
NumAdd(x, y) ==
    IF x.k = "nan" \/ y.k = "nan" THEN NaN
    ELSE IF x.k = "out" \/ y.k = "out" THEN OutOfRange
    ELSE IF x.k = "inf" /\ y.k = "inf" THEN (IF x.neg = y.neg THEN x ELSE NaN)
    ELSE IF x.k = "inf" THEN x
    ELSE IF y.k = "inf" THEN y
    ELSE LET s == Signed(x) + Signed(y)
         IN Fin(s < 0 \/ (s = 0 /\ x.neg /\ y.neg), Abs(s))

\* prev - current
NumSub(x, y) == NumAdd(x, Negate(y))

\* prev * current
NumMul(x, y) ==
    IF x.k = "nan" \/ y.k = "nan" THEN NaN
    ELSE IF x.k = "out" \/ y.k = "out" THEN OutOfRange
    ELSE IF x.k = "inf" \/ y.k = "inf"
         THEN (IF (x.k = "fin" /\ x.m = 0) \/ (y.k = "fin" /\ y.m = 0) THEN NaN
               ELSE Inf(x.neg # y.neg))
    ELSE IF (x.m * y.m) % Den # 0 THEN OutOfRange
    ELSE Fin(x.neg # y.neg, (x.m * y.m) \div Den)

\* mutant of NumDiv: a zero divisor gives NaN
NumDiv_ZeroIsNaN(x, y) ==
    IF x.k = "nan" \/ y.k = "nan" THEN NaN
    ELSE IF x.k = "out" \/ y.k = "out" THEN OutOfRange
    ELSE IF x.k = "inf" THEN (IF y.k = "inf" THEN NaN ELSE Inf(x.neg # y.neg))
    ELSE IF y.k = "inf" THEN Fin(x.neg # y.neg, 0)
    ELSE IF y.m = 0 THEN NaN
    ELSE IF (x.m * Den) % y.m # 0 THEN OutOfRange
    ELSE Fin(x.neg # y.neg, (x.m * Den) \div y.m)

\* prev / current
NumDiv(x, y) ==
    IF x.k = "nan" \/ y.k = "nan" THEN NaN
    ELSE IF x.k = "out" \/ y.k = "out" THEN OutOfRange
    ELSE IF x.k = "inf" THEN (IF y.k = "inf" THEN NaN ELSE Inf(x.neg # y.neg))
    ELSE IF y.k = "inf" THEN Fin(x.neg # y.neg, 0)
    ELSE IF y.m = 0 THEN (IF x.m = 0 THEN NaN ELSE Inf(x.neg # y.neg))
    ELSE IF (x.m * Den) % y.m # 0 THEN OutOfRange
    ELSE Fin(x.neg # y.neg, (x.m * Den) \div y.m)

\* mutant of NumRem: the floored modulo, whose sign follows the divisor
NumRem_Floored(x, y) ==
    IF x.k = "nan" \/ y.k = "nan" THEN NaN
    ELSE IF x.k = "out" \/ y.k = "out" THEN OutOfRange
    ELSE IF x.k = "inf" THEN NaN
    ELSE IF y.k = "inf" THEN x
    ELSE IF y.m = 0 THEN NaN
    ELSE IF x.neg # y.neg /\ x.m % y.m # 0 THEN Fin(y.neg, y.m - (x.m % y.m))
    ELSE Fin(y.neg, x.m % y.m)

\* prev % current: the remainder takes the sign of the dividend
NumRem(x, y) ==
    IF x.k = "nan" \/ y.k = "nan" THEN NaN
    ELSE IF x.k = "out" \/ y.k = "out" THEN OutOfRange
    ELSE IF x.k = "inf" THEN NaN
    ELSE IF y.k = "inf" THEN x
    ELSE IF y.m = 0 THEN NaN
    ELSE Fin(x.neg, x.m % y.m)

\* the switch of calculate; Operators only
Apply(op, x, y) ==
    CASE op = "+" -> NumAdd(x, y)
      [] op = "-" -> NumSub(x, y)
      [] op = "*" -> NumMul(x, y)
      [] op = "/" -> NumDiv(x, y)
      [] op = "%" -> NumRem(x, y)

\* ---- state ----
VARIABLES
    currentValue,        \* line 17
    previousValue,       \* line 18
    operation,           \* line 19: NULL or one of Operators
    waitingForNewValue,  \* line 20
    currentExpression,   \* line 21
    display,             \* display.textContent
    lastEvent,           \* history: the button handled last
    evaluated,           \* history: calculate has written a result since the last clearAll
    resume,              \* history: <<r>>, <<r, op>>, <<r, op, d>>, <<r, op, d, "=">> after "=" wrote r
    opSince,             \* history: an operator key was pressed since the last clearAll or "=" result
    hist                 \* history: the keys pressed so far (scripted specifications only)

vars == <<currentValue, previousValue, operation, waitingForNewValue,
          currentExpression, display, lastEvent, evaluated, resume, opSince, hist>>

\* the calculator's own variables as one record
S == [currentValue |-> currentValue, previousValue |-> previousValue,
      operation |-> operation, waitingForNewValue |-> waitingForNewValue,
      currentExpression |-> currentExpression, display |-> display]

Set(s) ==
    /\ currentValue' = s.currentValue
    /\ previousValue' = s.previousValue
    /\ operation' = s.operation
    /\ waitingForNewValue' = s.waitingForNewValue
    /\ currentExpression' = s.currentExpression
    /\ display' = s.display

\* the declarations of lines 17-21
InitState == [currentValue |-> <<"0">>, previousValue |-> <<>>, operation |-> NULL,
              waitingForNewValue |-> FALSE, currentExpression |-> <<>>, display |-> <<>>]

\* mutant of updateDisplay: the display shows currentValue only
updateDisplay_ValueOnly(s) == [s EXCEPT !.display = s.currentValue]

\* display.textContent = currentExpression || currentValue
updateDisplay(s) ==
    [s EXCEPT !.display = IF s.currentExpression # <<>> THEN s.currentExpression
                          ELSE s.currentValue]

\* lines 48-53 and 71-76: rebuild the expression after the operand changed
RebuildExpression(s) ==
    [s EXCEPT !.currentExpression =
        IF s.currentExpression # <<>>
        THEN Split(s.currentExpression)[1] \o SP \o OpText(s.operation) \o SP \o s.currentValue
        ELSE s.currentValue]

\* mutant of inputDigit: lines 38-42 missing, a digit always extends currentValue
inputDigit_NoFresh(s, digit) ==
    LET s1 == [s EXCEPT !.currentValue =
                            IF s.currentValue = <<"0">> THEN <<digit>>
                            ELSE s.currentValue \o <<digit>>]
    IN updateDisplay(RebuildExpression(s1))

\* mutant of inputDigit: line 45 without the test for "0"
inputDigit_Append(s, digit) ==
    LET s1 == IF s.waitingForNewValue
              THEN [s EXCEPT !.currentExpression =
                                 s.currentValue \o SP \o OpText(s.operation) \o SP,
                             !.currentValue = <<digit>>,
                             !.waitingForNewValue = FALSE]
              ELSE [s EXCEPT !.currentValue = s.currentValue \o <<digit>>]
    IN updateDisplay(RebuildExpression(s1))

inputDigit(s, digit) ==
    LET s1 == IF s.waitingForNewValue
              THEN [s EXCEPT !.currentExpression =
                                 s.currentValue \o SP \o OpText(s.operation) \o SP,
                             !.currentValue = <<digit>>,
                             !.waitingForNewValue = FALSE]
              ELSE [s EXCEPT !.currentValue =
                                 IF s.currentValue = <<"0">> THEN <<digit>>
                                 ELSE s.currentValue \o <<digit>>]
    IN updateDisplay(RebuildExpression(s1))

\* mutant of inputDecimal: line 66 without the test for '.'
inputDecimal_NoIncludes(s) ==
    LET s1 == IF s.waitingForNewValue
              THEN [s EXCEPT !.currentExpression =
                                 s.currentValue \o SP \o OpText(s.operation) \o SP,
                             !.currentValue = <<"0", ".">>,
                             !.waitingForNewValue = FALSE]
              ELSE [s EXCEPT !.currentValue = s.currentValue \o <<".">>]
    IN updateDisplay(RebuildExpression(s1))

inputDecimal(s) ==
    LET s1 == IF s.waitingForNewValue
              THEN [s EXCEPT !.currentExpression =
                                 s.currentValue \o SP \o OpText(s.operation) \o SP,
                             !.currentValue = <<"0", ".">>,
                             !.waitingForNewValue = FALSE]
              ELSE IF ~Includes(s.currentValue, ".")
              THEN [s EXCEPT !.currentValue = s.currentValue \o <<".">>]
              ELSE s
    IN updateDisplay(RebuildExpression(s1))

\* mutant of Result: line 108 tests prev only
Result_NoCurrentCheck(s) ==
    LET prev == parseFloat(s.previousValue)
        current == parseFloat(s.currentValue)
    IN IF isNaN(prev) THEN [k |-> "none"]
       ELSE IF s.operation \notin Operators THEN [k |-> "none"]
       ELSE Apply(s.operation, prev, current)

\* lines 104-118: the value calculate computes, or "none" when it returns early
Result(s) ==
    LET prev == parseFloat(s.previousValue)
        current == parseFloat(s.currentValue)
    IN IF isNaN(prev) \/ isNaN(current) THEN [k |-> "none"]
       ELSE IF s.operation \notin Operators THEN [k |-> "none"]
       ELSE Apply(s.operation, prev, current)

\* mutant of calculate: line 122 missing, "=" keeps the expression
calculate_KeepExpression(s, showResult) ==
    LET result == Result(s)
    IN IF result.k = "none" THEN s
       ELSE updateDisplay([s EXCEPT !.currentValue = String(result),
                                    !.operation = NULL,
                                    !.previousValue = <<>>,
                                    !.waitingForNewValue = TRUE])

\* mutant of calculate: line 130 missing, the operation stays pending
calculate_KeepOperation(s, showResult) ==
    LET result == Result(s)
    IN IF result.k = "none" THEN s
       ELSE LET s1 == IF showResult
                      THEN [s EXCEPT !.currentExpression = <<>>,
                                     !.currentValue = String(result)]
                      ELSE [s EXCEPT !.currentValue = String(result)]
            IN updateDisplay([s1 EXCEPT !.previousValue = <<>>,
                                        !.waitingForNewValue = TRUE])

calculate(s, showResult) ==
    LET result == Result(s)
    IN IF result.k = "none" THEN s
       ELSE LET s1 == IF showResult
                      THEN [s EXCEPT !.currentExpression = <<>>,
                                     !.currentValue = String(result)]
                      ELSE [s EXCEPT !.currentValue = String(result)]
            IN updateDisplay([s1 EXCEPT !.operation = NULL,
                                        !.previousValue = <<>>,
                                        !.waitingForNewValue = TRUE])

\* mutant of Chains: line 85 without the test of waitingForNewValue
Chains_IgnoreWaiting(s) == s.operation # NULL

\* line 85: handleOperator evaluates the pending operation first
Chains(s) == s.operation # NULL /\ ~s.waitingForNewValue

\* mutant of handleOperator: lines 85-88 missing, the pending operation is dropped
handleOperator_NoChain(s, nextOperator) ==
    updateDisplay([s EXCEPT !.previousValue = s.currentValue,
                            !.operation = nextOperator,
                            !.waitingForNewValue = TRUE,
                            !.currentExpression = s.currentValue \o SP \o <<nextOperator>>])

handleOperator(s, nextOperator) ==
    LET s1 == IF Chains(s) THEN calculate(s, FALSE) ELSE s
    IN updateDisplay([s1 EXCEPT !.previousValue = s1.currentValue,
                                !.operation = nextOperator,
                                !.waitingForNewValue = TRUE,
                                !.currentExpression = s1.currentValue \o SP \o <<nextOperator>>])

\* mutant of clearAll: line 141 missing
clearAll_KeepPrevious(s) ==
    updateDisplay([s EXCEPT !.currentValue = <<"0">>,
                            !.operation = NULL,
                            !.waitingForNewValue = FALSE,
                            !.currentExpression = <<>>])

\* mutant of clearAll: line 143 missing
clearAll_KeepWaiting(s) ==
    updateDisplay([s EXCEPT !.currentValue = <<"0">>,
                            !.previousValue = <<>>,
                            !.operation = NULL,
                            !.currentExpression = <<>>])

clearAll(s) ==
    updateDisplay([s EXCEPT !.currentValue = <<"0">>,
                            !.previousValue = <<>>,
                            !.operation = NULL,
                            !.waitingForNewValue = FALSE,
                            !.currentExpression = <<>>])

\* mutant of OrZero: the fallback to '0' missing
OrZero_Identity(x) == x

\* x || '0'
OrZero(x) == IF x = <<>> THEN <<"0">> ELSE x

\* mutant of deleteLastChar: erasing the operator from the expression also drops it
deleteLastChar_DropsOperation(s) ==
    IF s.currentExpression # <<>>
    THEN LET e == SliceLast(s.currentExpression)
             parts == Split(e)
             s1 == [s EXCEPT !.currentExpression = e]
         IN updateDisplay(
                IF Len(parts) = 1
                THEN [s1 EXCEPT !.currentValue = OrZero(parts[1]),
                                !.operation = NULL,
                                !.previousValue = <<>>,
                                !.waitingForNewValue = FALSE]
                ELSE IF Len(parts) = 3 THEN [s1 EXCEPT !.currentValue = OrZero(parts[3])]
                ELSE s1)
    ELSE updateDisplay([s EXCEPT !.currentValue = OrZero(SliceLast(s.currentValue))])

\* mutant of deleteLastChar: lines 158-160 missing
deleteLastChar_NoThird(s) ==
    IF s.currentExpression # <<>>
    THEN LET e == SliceLast(s.currentExpression)
             parts == Split(e)
             s1 == [s EXCEPT !.currentExpression = e]
         IN updateDisplay(
                IF Len(parts) = 1 THEN [s1 EXCEPT !.currentValue = OrZero(parts[1])]
                ELSE s1)
    ELSE updateDisplay([s EXCEPT !.currentValue = OrZero(SliceLast(s.currentValue))])

deleteLastChar(s) ==
    IF s.currentExpression # <<>>
    THEN LET e == SliceLast(s.currentExpression)
             parts == Split(e)
             s1 == [s EXCEPT !.currentExpression = e]
         IN updateDisplay(
                IF Len(parts) = 1 THEN [s1 EXCEPT !.currentValue = OrZero(parts[1])]
                ELSE IF Len(parts) = 3 THEN [s1 EXCEPT !.currentValue = OrZero(parts[3])]
                ELSE s1)
    ELSE updateDisplay([s EXCEPT !.currentValue = OrZero(SliceLast(s.currentValue))])

\* line 196: the display is refreshed once when the page has loaded
Init ==
    /\ currentValue = InitState.currentValue
    /\ previousValue = InitState.previousValue
    /\ operation = InitState.operation
    /\ waitingForNewValue = InitState.waitingForNewValue
    /\ currentExpression = InitState.currentExpression
    /\ display = updateDisplay(InitState).display
    /\ lastEvent = "load"
    /\ evaluated = FALSE
    /\ resume = <<>>
    /\ opSince = FALSE
    /\ hist = <<>>

\* ---- the button handlers of lines 169-193, with the history they leave ----
\* the evaluation the event performs stays within the explored numbers
InRange(s) == Result(s).k # "out"

\* the result, if there is one, is at most MaxAbs in magnitude
Small(s) == Result(s).k = "fin" => Result(s).m <= MaxAbs * Den

\* calculate gets past its early returns
Evaluates(s) == Result(s).k \notin {"none", "out"}

DigitEv(d) ==
    /\ Set(inputDigit(S, d))
    /\ lastEvent' = "digit"
    /\ resume' = IF Len(resume) = 2 THEN Append(resume, d) ELSE <<>>
    /\ UNCHANGED <<evaluated, opSince>>

DecimalEv ==
    /\ Set(inputDecimal(S))
    /\ lastEvent' = "decimal"
    /\ resume' = <<>>
    /\ UNCHANGED <<evaluated, opSince>>

OperatorEv(op) ==
    /\ Chains(S) => InRange(S)
    /\ Set(handleOperator(S, op))
    /\ lastEvent' = "operator"
    /\ evaluated' = (evaluated \/ (Chains(S) /\ Evaluates(S)))
    /\ resume' = IF Len(resume) = 1 THEN Append(resume, op) ELSE <<>>
    /\ opSince' = TRUE

EqualsEv ==
    /\ InRange(S)
    /\ Set(calculate(S, TRUE))
    /\ lastEvent' = "equals"
    /\ evaluated' = (evaluated \/ Evaluates(S))
    /\ resume' = IF Len(resume) = 3 THEN Append(resume, "=")
                 ELSE IF Evaluates(S) THEN <<Result(S)>>
                 ELSE <<>>
    /\ opSince' = (opSince /\ ~Evaluates(S))

ClearEv ==
    /\ Set(clearAll(S))
    /\ lastEvent' = "clear"
    /\ evaluated' = FALSE
    /\ resume' = <<>>
    /\ opSince' = FALSE

BackspaceEv ==
    /\ Set(deleteLastChar(S))
    /\ lastEvent' = "backspace"
    /\ resume' = <<>>
    /\ UNCHANGED <<evaluated, opSince>>

\* ---- Spec: any sequence of button presses ----
\* the operand being typed stays within MaxLen characters
CanAppend == waitingForNewValue \/ currentValue = <<"0">> \/ Len(currentValue) < MaxLen

Digit == \E d \in Digits : CanAppend /\ DigitEv(d) /\ UNCHANGED hist

Decimal == (CanAppend \/ Includes(currentValue, ".")) /\ DecimalEv /\ UNCHANGED hist

Operator == \E op \in Operators :
    (Chains(S) => Small(S)) /\ OperatorEv(op) /\ UNCHANGED hist

Equals == Small(S) /\ EqualsEv /\ UNCHANGED hist

Clear == ClearEv /\ UNCHANGED hist

Backspace == BackspaceEv /\ UNCHANGED hist

Next == Digit \/ Decimal \/ Operator \/ Equals \/ Clear \/ Backspace

Spec == Init /\ [][Next]_vars

\* ---- SpecTyping: digit and decimal-point keys only, from the initial state ----
TypeDigit == Len(hist) < MaxTyped /\ \E d \in AllDigits : DigitEv(d) /\ hist' = Append(hist, d)

TypeDecimal == Len(hist) < MaxTyped /\ DecimalEv /\ hist' = Append(hist, ".")

NextTyping == TypeDigit \/ TypeDecimal

SpecTyping == Init /\ [][NextTyping]_vars

\* ---- SpecChain: digit, operator, digit, operator, digit, "=" from the initial state ----
ChainDigit ==
    Len(hist) \in {0, 2, 4} /\ \E d \in AllDigits : DigitEv(d) /\ hist' = Append(hist, d)

ChainOperator ==
    Len(hist) \in {1, 3} /\ \E op \in Operators : OperatorEv(op) /\ hist' = Append(hist, op)

ChainEquals == Len(hist) = 5 /\ EqualsEv /\ hist' = Append(hist, "=")

NextChain == ChainDigit \/ ChainOperator \/ ChainEquals

SpecChain == Init /\ [][NextChain]_vars

\* ---- SpecRoundTrip: digits, then as many backspaces, from the initial state ----
Backs(h) == Cardinality({i \in 1..Len(h) : h[i] = "<"})

RoundDigit ==
    /\ Len(hist) < MaxRound
    /\ Backs(hist) = 0
    /\ \E d \in Digits : DigitEv(d) /\ hist' = Append(hist, d)

RoundBackspace ==
    /\ 2 * Backs(hist) < Len(hist)
    /\ BackspaceEv
    /\ hist' = Append(hist, "<")

NextRoundTrip == RoundDigit \/ RoundBackspace

SpecRoundTrip == Init /\ [][NextRoundTrip]_vars

\* ---- SpecResult: digit, operator, digit, "=", operator, digit, "=" from the initial state ----
ResultDigit ==
    Len(hist) \in {0, 2, 5} /\ \E d \in AllDigits : DigitEv(d) /\ hist' = Append(hist, d)

ResultOperator ==
    Len(hist) \in {1, 4} /\ \E op \in Operators : OperatorEv(op) /\ hist' = Append(hist, op)

ResultEquals == Len(hist) \in {3, 6} /\ EqualsEv /\ hist' = Append(hist, "=")

NextResult == ResultDigit \/ ResultOperator \/ ResultEquals

SpecResult == Init /\ [][NextResult]_vars

\* ---- vocabulary of the properties ----
Dots(s) == Cardinality({i \in 1..Len(s) : s[i] = "."})

\* a decimal numeral: digits with an optional single '.', starting with a digit
IsNumeral(s) ==
    /\ Len(s) > 0
    /\ \A i \in 1..Len(s) : IsDigit(s[i]) \/ s[i] = "."
    /\ Dots(s) <= 1
    /\ IsDigit(s[1])

\* left, left SP op, or left SP op SP right
IsExpression(e) ==
    LET parts == Split(e)
    IN /\ Len(parts) \in 1..3
       /\ IsNumeral(parts[1])
       /\ Len(parts) >= 2 => (Len(parts[2]) = 1 /\ parts[2][1] \in Operators)
       /\ Len(parts) = 3 => IsNumeral(parts[3])

OnlyDigits(h) == \A i \in 1..Len(h) : IsDigit(h[i])

\* the digits of h with leading zeros suppressed; "0" when nothing else is left
RECURSIVE SuppressZeros(_)
SuppressZeros(h) ==
    IF h = <<>> THEN <<"0">>
    ELSE IF Len(h) > 1 /\ h[1] = "0" THEN SuppressZeros(Tail(h))
    ELSE h

NumOfDigit(d) == Fin(FALSE, DigitVal(d) * Den)

\* ---- C1 ----
\* C1: in every reachable state currentExpression is empty or has the structure
\* left, left SP op or left SP op SP right, with op one of the five operators
\* and left, right numerals.  (Stated as claimed; the code violates it.)
C1_ExpressionStructure == currentExpression = <<>> \/ IsExpression(currentExpression)

\* ---- C2 ----
\* C2: while only digit and decimal-point keys have been pressed since the initial
\* state, the displayed text equals currentValue after each key.  (Stated as
\* claimed; the code violates it.)
C2_DisplayIsValue == Len(hist) > 0 => display = currentValue

\* ---- C3 ----
ChainFirst == Apply(hist[2], NumOfDigit(hist[1]), NumOfDigit(hist[3]))
ChainExpected == String(Apply(hist[4], ChainFirst, NumOfDigit(hist[5])))

\* C3 as claimed: after a op1 b op2 c =, currentValue is the string of
\* ((a op1 b) op2 c) and currentExpression is empty, for all digits and operators.
C3_ChainingAll ==
    Len(hist) = 6 => (currentValue = ChainExpected /\ currentExpression = <<>>)

\* C3 amended: the same, provided a op1 b is not NaN.
C3_Chaining ==
    (Len(hist) = 6 /\ ~isNaN(ChainFirst))
        => (currentValue = ChainExpected /\ currentExpression = <<>>)

C3_Witness == hist = <<"6", "-", "2", "+", "3", "=">> /\ currentValue = <<"7">>

\* ---- C4 ----
ResumeExpected == String(Apply(resume[2], resume[1], NumOfDigit(resume[3])))

\* C4 as claimed: once "=" has written a result r, the keys op, d, "=" leave
\* currentValue the string of (r op d) and currentExpression empty.
C4_ContinueAll ==
    Len(resume) = 4 => (currentValue = ResumeExpected /\ currentExpression = <<>>)

\* C4 amended: the same, provided r is not NaN.
C4_Continue ==
    (Len(resume) = 4 /\ ~isNaN(resume[1]))
        => (currentValue = ResumeExpected /\ currentExpression = <<>>)

C4_Witness ==
    /\ Len(resume) = 4
    /\ resume[1] = Fin(TRUE, 2 * Den)
    /\ resume[2] = "-"
    /\ resume[3] = "2"
    /\ currentValue = <<"-", "4">>

\* ---- C5 ----
Unparsed == operation = NULL \/ isNaN(parseFloat(previousValue)) \/ isNaN(parseFloat(currentValue))

\* C5: "=" pressed while the operation is absent or an operand does not parse
\* changes none of the five fields nor the displayed text.
C5_EqualsNoOp ==
    [][(lastEvent' = "equals" /\ Unparsed)
          => UNCHANGED <<currentValue, previousValue, operation, waitingForNewValue,
                         currentExpression, display>>]_vars

C5_Witness ==
    /\ lastEvent = "equals"
    /\ operation \in Operators
    /\ ~isNaN(parseFloat(previousValue))
    /\ isNaN(parseFloat(currentValue))

\* ---- C6 ----
\* C6: the state right after clear() is the initial state, and the display shows "0".
C6_ClearResets ==
    lastEvent = "clear" =>
        /\ currentValue = <<"0">>
        /\ previousValue = <<>>
        /\ operation = NULL
        /\ waitingForNewValue = FALSE
        /\ currentExpression = <<>>
        /\ display = <<"0">>

C6_Witness == lastEvent = "clear" /\ display = <<"0">> /\ ~evaluated

\* ---- C7 ----
\* C7: after digit keys only, currentValue is the digits pressed with leading
\* zeros suppressed.
C7_DigitsConcat == OnlyDigits(hist) => currentValue = SuppressZeros(hist)

C7_Witness == hist = <<"0", "0", "7", "0">> /\ currentValue = <<"7", "0">>

\* ---- C8 ----
\* C8: currentValue never holds more than one '.', and a decimal point pressed on an
\* operand that has one and is not awaiting a new value leaves currentValue unchanged.
C8_OneDot ==
    /\ [](Dots(currentValue) <= 1)
    /\ [][(lastEvent' = "decimal" /\ ~waitingForNewValue /\ Includes(currentValue, "."))
             => currentValue' = currentValue]_vars

C8_Witness ==
    /\ lastEvent = "decimal"
    /\ ~waitingForNewValue
    /\ Dots(currentValue) = 1
    /\ Len(currentValue) = MaxLen

\* ---- C9 ----
\* C9 as claimed: currentValue is always a decimal numeral made of digits and an
\* optional single '.'.
C9_AlwaysNumeral == IsNumeral(currentValue)

\* C9 amended: currentValue is never empty, and it is such a numeral as long as
\* calculate has written no result since the last clear.
C9_Numeral == currentValue # <<>> /\ (~evaluated => IsNumeral(currentValue))

C9_Witness ==
    /\ lastEvent = "backspace"
    /\ ~evaluated
    /\ operation \in Operators
    /\ Len(Split(currentExpression)) = 3
    /\ currentValue = <<"0">>

\* ---- C10 ----
\* C10: a currentValue that starts with '0' is exactly "0" or continues with '.'.
C10_NoLeadingZeros ==
    currentValue[1] = "0" => (Len(currentValue) = 1 \/ currentValue[2] = ".")

C10_Witness ==
    /\ lastEvent = "digit"
    /\ operation = NULL
    /\ currentValue = <<"0">>
    /\ Len(Split(currentExpression)) = 3

\* ---- C11 ----
\* C11: after every event the displayed text is currentExpression when that is
\* non-empty and currentValue otherwise, also after an "=" that returned early.
C11_DisplayRule ==
    display = IF currentExpression # <<>> THEN currentExpression ELSE currentValue

C11_Witness ==
    /\ lastEvent = "equals"
    /\ operation \in Operators
    /\ isNaN(parseFloat(previousValue))
    /\ currentExpression # <<>>
    /\ display # currentValue

\* ---- C14 ----
\* C14: operation is absent exactly when no operator key has been pressed since
\* the most recent clear(), the most recent result written by "=", or the start.
C14_OperationAbsent == (operation = NULL) <=> ~opSince

C14_Witness ==
    /\ lastEvent = "backspace"
    /\ evaluated
    /\ operation = NULL
    /\ ~opSince
    /\ currentExpression = <<>>

\* ---- C12 ----
\* C12: n >= 1 digits followed by n backspaces leave currentValue "0".
C12_RoundTrip ==
    (Len(hist) > 0 /\ 2 * Backs(hist) = Len(hist)) => currentValue = <<"0">>

C12_Witness ==
    /\ hist = <<"2", "0", "2", "<", "<", "<">>
    /\ currentValue = <<"0">>
    /\ currentExpression = <<"2", " ", "n", "u", "l", "l", " ">>

\* ---- C13 ----
\* C13: for a non-zero digit d, the keys d, division, 0, "=" leave currentValue
\* "Infinity", currentExpression empty, operation absent and the flag set.
C13_DivideByZero ==
    (Len(hist) = 4 /\ hist[1] # "0" /\ hist[2] = "/" /\ hist[3] = "0")
        => /\ currentValue = <<"I", "n", "f", "i", "n", "i", "t", "y">>
           /\ currentExpression = <<>>
           /\ operation = NULL
           /\ waitingForNewValue = TRUE

C13_Witness ==
    /\ hist = <<"5", "/", "0", "=">>
    /\ display = <<"I", "n", "f", "i", "n", "i", "t", "y">>

\* ---- C17 ----
\* the magnitude of the negative result of a - b and what is left of it modulo d
RemLeft == DigitVal(hist[3]) - DigitVal(hist[1])
RemTrunc == RemLeft % DigitVal(hist[6])

\* C17: with a negative left operand from a subtraction, % gives the remainder
\* with the sign of the dividend, never the non-negative modulo.
C17_Remainder ==
    (/\ Len(hist) = 7
     /\ hist[2] = "-"
     /\ hist[5] = "%"
     /\ RemLeft > 0
     /\ hist[6] # "0")
        => /\ currentValue = IF RemTrunc = 0 THEN <<"0">> ELSE <<"-">> \o NatStr(RemTrunc)
           /\ RemTrunc # 0 => currentValue # NatStr(DigitVal(hist[6]) - RemTrunc)

C17_Witness ==
    /\ hist = <<"2", "-", "5", "=", "%", "2", "=">>
    /\ currentValue = <<"-", "1">>

\* ---- C15 ----
Parsed ==
    /\ operation \in Operators
    /\ ~isNaN(parseFloat(previousValue))
    /\ ~isNaN(parseFloat(currentValue))

\* C15: "=" pressed with an operation pending and both operands parsed writes the
\* string of (previousValue op currentValue), clears operation, previousValue and
\* currentExpression, sets the flag, and the display shows the result alone.
C15_EqualsCommits ==
    [][(lastEvent' = "equals" /\ Parsed)
          => /\ currentValue' =
                    String(Apply(operation, parseFloat(previousValue), parseFloat(currentValue)))
             /\ operation' = NULL
             /\ previousValue' = <<>>
             /\ waitingForNewValue' = TRUE
             /\ currentExpression' = <<>>
             /\ display' = currentValue']_vars

C15_Witness ==
    /\ lastEvent = "equals"
    /\ Len(resume) = 1
    /\ currentValue = String(resume[1])
    /\ display = <<"-", "2">>
    /\ operation = NULL

\* ---- C16 ----
\* C16: backspace removes the last character of a non-empty expression and then
\* sets currentValue from the tokens left (one token: that token, three: the
\* third, "0" for an empty one, otherwise no change); on an empty expression it
\* removes the last character of currentValue, "0" if nothing is left.
C16_BackspaceRule ==
    [][lastEvent' = "backspace"
          => IF currentExpression # <<>>
             THEN /\ currentExpression' =
                        SubSeq(currentExpression, 1, Len(currentExpression) - 1)
                  /\ LET parts == Split(currentExpression')
                     IN currentValue' =
                            IF Len(parts) = 1
                            THEN (IF parts[1] = <<>> THEN <<"0">> ELSE parts[1])
                            ELSE IF Len(parts) = 3
                            THEN (IF parts[3] = <<>> THEN <<"0">> ELSE parts[3])
                            ELSE currentValue
             ELSE currentValue' =
                      IF Len(currentValue) <= 1 THEN <<"0">>
                      ELSE SubSeq(currentValue, 1, Len(currentValue) - 1)]_vars

C16_Witness ==
    /\ lastEvent = "backspace"
    /\ Len(Split(currentExpression)) = 2
    /\ Split(currentExpression)[1] = <<"2">>
    /\ currentValue = <<"0">>
    /\ operation \in Operators

C19_PreviousIffOperation == (previousValue = <<>>) <=> (operation = NULL)

C19_Witness ==
    /\ lastEvent = "operator"
    /\ evaluated
    /\ previousValue # <<>>
    /\ operation \in Operators

\* ---- C20 ----
\* an operation is pending that the expression no longer shows
Erased == operation \in Operators /\ Len(Split(currentExpression)) = 1

BackspaceFrame ==
    lastEvent' = "backspace" => UNCHANGED <<operation, previousValue, waitingForNewValue>>

====
